---- MODULE Spec2Model ----
(***************************************************************************)
(* Authentication subsystem of the notes service: JWT codec, in-memory     *)
(* user directory, in-memory refresh-token store and the authentication    *)
(* service (login, refresh_token, get_current_user).                       *)
(*                                                                         *)
(* Time: `now` is the wall clock in whole seconds, i.e. the value          *)
(* timegm(datetime.now(utc).utctimetuple()) that python-jose writes into   *)
(* the exp/iat claims and compares exp against.  Several operations can    *)
(* run while `now` keeps one value (the same clock second).                *)
(***************************************************************************)
EXTENDS Integers, Sequences, FiniteSets, TLC

\* ------------------------------------------------------------------ bounds
MaxClock == 3
AccessTTL == 1
RefreshTTL == 2
NumTasks == 2

\* --------------------------------------------------------------- constants
Secret == "secret-key"
OtherSecret == "attacker-key"
Algorithm == "HS256"
OtherAlgorithm == "HS384"
Absent == "<absent>"
NoExp == -1

VARIABLES now, users_by_id, users_by_email, passwords, has_validate_password,
          refresh_tokens, issued, used, superseded, last, tasks,
          notes, note_last

vars == <<now, users_by_id, users_by_email, passwords, has_validate_password,
          refresh_tokens, issued, used, superseded, last, tasks,
          notes, note_last>>

\* the notes repository and the record of the most recent notes call
notes_vars == <<notes, note_last>>

\* the user directory (InMemoryUserRepository) as one tuple
directory == <<users_by_id, users_by_email, passwords, has_validate_password>>

\* history kept for the properties: not program state
history == <<issued, used, superseded>>

\* -------------------------------------------------------------------- User
User(id, email, name) == [id |-> id, email |-> email, name |-> name]

\* Python's None where a User is expected (real users have non-empty fields)
NoneUser == [id |-> "", email |-> "", name |-> ""]

mock_user == User("user-1", "john.doe@ancorit.com", "Test User")

\* users offered to create_user
NewUsers ==
    { User("user-2", "jane.roe@ancorit.com", "Jane Roe"),
      User("user-1", "jane.roe@ancorit.com", "Jane Roe"),
      User("user-2", "john.doe@ancorit.com", "Jane Roe") }

UserIds == {"user-1", "user-2", "user-3"}
Emails == {"john.doe@ancorit.com", "jane.roe@ancorit.com", "nobody@example.com"}
Passwords == {"LetMeIn!", "wrong"}

\* ------------------------------------------------------------------ tokens
\* claim set of a token; Absent marks a claim that is not in the payload
Claims(sub, email, type, exp, iat) ==
    [sub |-> sub, email |-> email, type |-> type, exp |-> exp, iat |-> iat]

NoClaims == Claims(Absent, Absent, Absent, NoExp, NoExp)

\* the MAC over header and payload: a value determined by key, alg and claims
HMAC(key, alg, claims) == <<key, alg, claims>>

\* jose.jwt.encode: header {alg}, payload, signature over both
jwt_encode(claims, key, alg) ==
    [fmt |-> "jwt", raw |-> "", alg |-> alg, claims |-> claims,
     sig |-> HMAC(key, alg, claims)]

\* a string that is not three base64 segments
Garbage(raw) ==
    [fmt |-> "garbage", raw |-> raw, alg |-> "", claims |-> NoClaims,
     sig |-> HMAC("", "", NoClaims)]

\* Python's None where a token string is expected (never a dict value here)
NoneToken ==
    [fmt |-> "none", raw |-> "", alg |-> "", claims |-> NoClaims,
     sig |-> HMAC("", "", NoClaims)]

\* truthiness of a str: only the empty string is falsy
Truthy(tok) == ~(tok.fmt = "none") /\ ~(tok.fmt = "garbage" /\ tok.raw = "")

\* result of jwt.decode: the payload, or JWTError
JWTError == [ok |-> FALSE, claims |-> NoClaims]
Payload(claims) == [ok |-> TRUE, claims |-> claims]

\* encode_token with the email written into the sub claim
encode_token_sub_email(user_id, email, expires_in) ==
    jwt_encode(Claims(email, email, "access", now + expires_in, now),
               Secret, Algorithm)

\* exp and iat are written as whole seconds (jose converts the datetimes);
\* the two clock reads of one call are taken within the same second
encode_token(user_id, email, expires_in) ==
    jwt_encode(Claims(user_id, email, "access", now + expires_in, now),
               Secret, Algorithm)

encode_refresh_token(user_id, expires_in) ==
    jwt_encode(Claims(user_id, Absent, "refresh", now + expires_in, now),
               Secret, Algorithm)

\* jwt_decode without the signature comparison
jwt_decode_no_sig(token, key, algorithms, verify_exp) ==
    IF token.fmt # "jwt" THEN JWTError
    ELSE IF token.alg \notin algorithms THEN JWTError
    ELSE IF verify_exp /\ token.claims.exp # NoExp /\ token.claims.exp < now
         THEN JWTError
    ELSE Payload(token.claims)

\* jose.jwt.decode(token, key, algorithms, options): structure, allowed
\* algorithm, signature, then the exp claim against the clock
jwt_decode(token, key, algorithms, verify_exp) ==
    IF token.fmt # "jwt" THEN JWTError
    ELSE IF token.alg \notin algorithms THEN JWTError
    ELSE IF token.sig # HMAC(key, token.alg, token.claims) THEN JWTError
    ELSE IF verify_exp /\ token.claims.exp # NoExp /\ token.claims.exp < now
         THEN JWTError
    ELSE Payload(token.claims)

\* a dict is falsy when it has no key
PayloadFalsy(p) == ~p.ok \/ p.claims = NoClaims

decode_token(token) == jwt_decode(token, Secret, {Algorithm}, FALSE)

\* validate_token with the expiry check switched off
validate_token_no_exp(token) == jwt_decode(token, Secret, {Algorithm}, FALSE)

validate_token(token) == jwt_decode(token, Secret, {Algorithm}, TRUE)

\* ---------------------------------------------------------- user directory
get_by_email(email) ==
    IF email \in DOMAIN users_by_email THEN users_by_email[email] ELSE NoneUser

get_by_id(user_id) ==
    IF user_id \in DOMAIN users_by_id THEN users_by_id[user_id] ELSE NoneUser

\* validate_password accepting an email that has no stored credential
validate_password_missing_ok(email, password) ==
    IF email \notin DOMAIN passwords THEN TRUE
    ELSE IF passwords[email] = "" THEN FALSE
    ELSE passwords[email] = password

\* validate_password that only looks for a stored credential
validate_password_any(email, password) ==
    IF email \notin DOMAIN passwords THEN FALSE
    ELSE IF passwords[email] = "" THEN FALSE
    ELSE TRUE

validate_password(email, password) ==
    IF email \notin DOMAIN passwords THEN FALSE
    ELSE IF passwords[email] = "" THEN FALSE
    ELSE passwords[email] = password

\* ------------------------------------------------------ refresh token store
\* dict assignment d[k] = v
DictSet(d, k, v) == [x \in DOMAIN d \cup {k} |-> IF x = k THEN v ELSE d[x]]

\* del d[k]
DictDel(d, k) == [x \in DOMAIN d \ {k} |-> d[x]]

get_refresh_token(user_id) ==
    IF user_id \in DOMAIN refresh_tokens THEN refresh_tokens[user_id]
    ELSE NoneToken

\* validate_refresh_token that only looks for an entry
validate_refresh_token_any(user_id, refresh_token) ==
    LET stored_token == get_refresh_token(user_id)
    IN  Truthy(stored_token)

\* validate_refresh_token that looks for the token under every user id
validate_refresh_token_any_user(user_id, refresh_token) ==
    \E u \in DOMAIN refresh_tokens :
        Truthy(refresh_tokens[u]) /\ refresh_tokens[u] = refresh_token

validate_refresh_token(user_id, refresh_token) ==
    LET stored_token == get_refresh_token(user_id)
    IN  IF ~Truthy(stored_token) THEN FALSE
        ELSE stored_token = refresh_token

\* ------------------------------------------------- authentication service
\* outcomes: "ok" or the message of the ValueError raised
InvalidCredentials == "Invalid credentials"
InvalidRefreshToken == "Invalid refresh token"
InvalidTokenType == "Invalid token type"
InvalidTokenPayload == "Invalid token payload"
TokenRevoked == "Refresh token not found or revoked"
UserNotFound == "User not found"

\* `if not user_id` for payload.get("sub")
NoSub(claims) == claims.sub = Absent \/ claims.sub = ""

\* the path login takes up to token generation
login_outcome(email, password) ==
    IF get_by_email(email) = NoneUser THEN InvalidCredentials
    ELSE IF has_validate_password /\ ~validate_password(email, password)
         THEN InvalidCredentials
    ELSE "ok"

\* refresh_outcome without the token type check
refresh_outcome_no_type_check(token) ==
    LET payload == validate_token(token)
    IN  IF PayloadFalsy(payload) THEN InvalidRefreshToken
        ELSE IF NoSub(payload.claims) THEN InvalidTokenPayload
        ELSE IF ~validate_refresh_token(payload.claims.sub, token)
             THEN TokenRevoked
        ELSE IF get_by_id(payload.claims.sub) = NoneUser THEN UserNotFound
        ELSE "ok"

\* refresh_outcome with the store match ahead of the token type check
refresh_outcome_store_first(token) ==
    LET payload == validate_token(token)
    IN  IF PayloadFalsy(payload) THEN InvalidRefreshToken
        ELSE IF NoSub(payload.claims) THEN InvalidTokenPayload
        ELSE IF ~validate_refresh_token(payload.claims.sub, token)
             THEN TokenRevoked
        ELSE IF payload.claims.type # "refresh" THEN InvalidTokenType
        ELSE IF get_by_id(payload.claims.sub) = NoneUser THEN UserNotFound
        ELSE "ok"

\* the path refresh_token takes up to token generation
refresh_outcome(token) ==
    LET payload == validate_token(token)
    IN  IF PayloadFalsy(payload) THEN InvalidRefreshToken
        ELSE IF payload.claims.type # "refresh" THEN InvalidTokenType
        ELSE IF NoSub(payload.claims) THEN InvalidTokenPayload
        ELSE IF ~validate_refresh_token(payload.claims.sub, token)
             THEN TokenRevoked
        ELSE IF get_by_id(payload.claims.sub) = NoneUser THEN UserNotFound
        ELSE "ok"

\* current_user without the token type check
current_user_no_type_check(token) ==
    LET payload == validate_token(token)
    IN  IF PayloadFalsy(payload) THEN NoneUser
        ELSE IF NoSub(payload.claims) THEN NoneUser
        ELSE get_by_id(payload.claims.sub)

\* current_user that asks for a store entry of the subject
current_user_needs_entry(token) ==
    LET payload == validate_token(token)
    IN  IF PayloadFalsy(payload) THEN NoneUser
        ELSE IF payload.claims.type # "access" THEN NoneUser
        ELSE IF NoSub(payload.claims) THEN NoneUser
        ELSE IF payload.claims.sub \notin DOMAIN refresh_tokens THEN NoneUser
        ELSE get_by_id(payload.claims.sub)

\* the value get_current_user returns
current_user(token) ==
    LET payload == validate_token(token)
    IN  IF PayloadFalsy(payload) THEN NoneUser
        ELSE IF payload.claims.type # "access" THEN NoneUser
        ELSE IF NoSub(payload.claims) THEN NoneUser
        ELSE get_by_id(payload.claims.sub)

\* ------------------------------------------------------ JWTAuthProvider
\* authenticate_user without the token type check
authenticate_user_no_type_check(token) ==
    LET payload == validate_token(token)
    IN  IF PayloadFalsy(payload) THEN NoneUser
        ELSE IF NoSub(payload.claims) THEN NoneUser
        ELSE get_by_id(payload.claims.sub)

\* the value JWTAuthProvider.authenticate returns; the provider is built on
\* the JWT service and user repository of the authentication service
authenticate_user(token) ==
    LET payload == validate_token(token)
    IN  IF PayloadFalsy(payload) THEN NoneUser
        ELSE IF payload.claims.type # "access" THEN NoneUser
        ELSE IF NoSub(payload.claims) THEN NoneUser
        ELSE get_by_id(payload.claims.sub)

\* ----------------------------------------------------------- auth routes
HTTP_200_OK == 200
HTTP_401_UNAUTHORIZED == 401

\* POST /auth/login: the token response, or 401 with the error's text
login_response(email, password) ==
    LET outcome == login_outcome(email, password)
    IN  IF outcome = "ok"
        THEN [status |-> HTTP_200_OK, detail |-> ""]
        ELSE [status |-> HTTP_401_UNAUTHORIZED, detail |-> outcome]

\* POST /auth/refresh: the token response, or 401 with the error's text
refresh_response(token) ==
    LET outcome == refresh_outcome(token)
    IN  IF outcome = "ok"
        THEN [status |-> HTTP_200_OK, detail |-> ""]
        ELSE [status |-> HTTP_401_UNAUTHORIZED, detail |-> outcome]

\* record of the most recent call and what it returned or raised
Call(op, email, password, user_id, token, outcome, access, refresh, user) ==
    [op |-> op, email |-> email, password |-> password, user_id |-> user_id,
     token |-> token, outcome |-> outcome, access |-> access,
     refresh |-> refresh, user |-> user]

NoCall ==
    Call("none", "", "", "", NoneToken, "ok", NoneToken, NoneToken, NoneUser)

\* tokens handed out so far
IssuedRefresh == {i.refresh : i \in issued}
IssuedAccess == {i.access : i \in issued}
IssuedTokens == IssuedRefresh \cup IssuedAccess

\* what a caller without the secret can make of a token it holds
Resign(t) == jwt_encode(t.claims, OtherSecret, Algorithm)
TamperSig(t) == [t EXCEPT !.sig = HMAC("tampered", t.alg, t.claims)]
SwapAlg(t) == [t EXCEPT !.alg = OtherAlgorithm]
SwapType(t) ==
    [t EXCEPT !.claims.type = IF @ = "access" THEN "refresh" ELSE "access"]
Prolong(t) == [t EXCEPT !.claims.exp = MaxClock + RefreshTTL + 1]
Forged(t) == {Resign(t), TamperSig(t), SwapAlg(t), SwapType(t), Prolong(t)}

NotTokens == {Garbage("not-a-jwt"), Garbage("")}

\* token strings a caller presents: the tokens handed out, what can be made
\* of the stored ones without the secret, and strings that are no token
InputTokens ==
    IssuedTokens
      \cup UNION {Forged(refresh_tokens[u]) : u \in DOMAIN refresh_tokens}
      \cup NotTokens

\* access tokens under the configured secret for a subject that may be
\* missing from the directory, for an empty subject and for no subject
SubjectTokens ==
    {jwt_encode(Claims(sub, Absent, "access", MaxClock, 0), Secret, Algorithm) :
        sub \in {"user-2", "", Absent}}

\* ------------------------------------------------------------ notes domain
\* Text is a sequence of characters.  A Note is modelled by its id, title and
\* content; last_modified_utc, category and tags take no part in any check.
Note(id, title, content) == [id |-> id, title |-> title, content |-> content]

\* Python's None where a Note is expected (pydantic refuses empty fields)
NoneNote == Note(<<>>, <<>>, <<>>)

Whitespace == {" "}

RECURSIVE LStrip(_)
LStrip(s) ==
    IF s = <<>> THEN s
    ELSE IF Head(s) \in Whitespace THEN LStrip(Tail(s))
    ELSE s

RECURSIVE RStrip(_)
RStrip(s) ==
    IF s = <<>> THEN s
    ELSE IF s[Len(s)] \in Whitespace THEN RStrip(SubSeq(s, 1, Len(s) - 1))
    ELSE s

\* str.strip()
Strip(s) == RStrip(LStrip(s))

\* the errors Note.validate_entity collects; it raises ValidationError when
\* the list is not empty
validate_entity(note) ==
    (IF Strip(note.id) = <<>> THEN <<"ID is required">> ELSE <<>>)
      \o (IF Strip(note.title) = <<>> THEN <<"Title is required">> ELSE <<>>)
      \o (IF Strip(note.content) = <<>> THEN <<"Content is required">>
                                        ELSE <<>>)

\* the notes of _initialize_mock_data: ids '1' and '2'
mock_notes ==
    { Note(<<"1">>, <<"G">>, <<"C">>), Note(<<"2">>, <<"F">>, <<"A">>) }

\* notes handed to the service: a new id, a stored id and a blank id, with
\* plain, padded and blank text
NoteIds == {<<"t">>, <<"1">>, <<" ">>}
NoteTitles == {<<"T">>, <<" ", "T">>, <<" ">>}
NoteContents == {<<"c">>, <<" ">>}
InputNotes ==
    {Note(id, title, content) :
        id \in NoteIds, title \in NoteTitles, content \in NoteContents}

\* record of the most recent notes call: the exception class and message, or
\* "ok" and the note or the number of notes returned
NoteCall(op, id, exc, outcome, note, count) ==
    [op |-> op, id |-> id, exc |-> exc, outcome |-> outcome, note |-> note,
     count |-> count]

NoNoteCall == NoteCall("none", <<>>, "", "ok", NoneNote, 0)

\* InMemoryNotesRepository.get_notes: the stored notes
get_notes_result == {notes[id] : id \in DOMAIN notes}

\* repository create_note that does not look for the id
repo_create_note_overwrite(note) ==
    /\ notes' = DictSet(notes, note.id, note)
    /\ note_last' = NoteCall("create_note", note.id, "", "ok", note, 0)

\* InMemoryNotesRepository.create_note
repo_create_note(note) ==
    IF note.id \in DOMAIN notes
    THEN /\ note_last' = NoteCall("create_note", note.id, "ValueError",
                                  "already exists", note, 0)
         /\ UNCHANGED notes
    ELSE /\ notes' = DictSet(notes, note.id, note)
         /\ note_last' = NoteCall("create_note", note.id, "", "ok", note, 0)

\* InMemoryNotesRepository.update_note
repo_update_note(note) ==
    IF note.id \notin DOMAIN notes
    THEN /\ note_last' = NoteCall("update_note", note.id, "ValueError",
                                  "not found", note, 0)
         /\ UNCHANGED notes
    ELSE /\ notes' = DictSet(notes, note.id,
                             Note(note.id, note.title, note.content))
         /\ note_last' = NoteCall("update_note", note.id, "", "ok", note, 0)

auth_vars ==
    <<now, directory, refresh_tokens, history, last, tasks>>

\* NotesService.get_notes
get_notes ==
    /\ note_last' = NoteCall("get_notes", <<>>, "", "ok", NoneNote,
                             Cardinality(get_notes_result))
    /\ UNCHANGED <<notes, auth_vars>>

\* NotesService.get_note_by_id
get_note_by_id(id) ==
    /\ note_last' = IF id \in DOMAIN notes
                    THEN NoteCall("get_note_by_id", id, "", "ok", notes[id], 0)
                    ELSE NoteCall("get_note_by_id", id, "ValueError",
                                  "not found", NoneNote, 0)
    /\ UNCHANGED <<notes, auth_vars>>

\* NotesService.create_note: validation, then the repository
create_note(note) ==
    /\ IF validate_entity(note) # <<>>
       THEN /\ note_last' = NoteCall("create_note", note.id, "ValidationError",
                                     "Validation failed", note, 0)
            /\ UNCHANGED notes
       ELSE repo_create_note(note)
    /\ UNCHANGED auth_vars

\* NotesService.update_note: validation, then the repository
update_note(note) ==
    /\ IF validate_entity(note) # <<>>
       THEN /\ note_last' = NoteCall("update_note", note.id, "ValidationError",
                                     "Validation failed", note, 0)
            /\ UNCHANGED notes
       ELSE repo_update_note(note)
    /\ UNCHANGED auth_vars

\* NotesService.delete_note
delete_note(id) ==
    /\ IF id \notin DOMAIN notes
       THEN /\ note_last' = NoteCall("delete_note", id, "ValueError",
                                     "not found", NoneNote, 0)
            /\ UNCHANGED notes
       ELSE /\ notes' = DictDel(notes, id)
            /\ note_last' = NoteCall("delete_note", id, "", "ok", NoneNote, 0)
    /\ UNCHANGED auth_vars

NextNotes ==
    \/ get_notes
    \/ \E id \in NoteIds : get_note_by_id(id)
    \/ \E note \in InputNotes : create_note(note)
    \/ \E note \in InputNotes : update_note(note)
    \/ \E id \in NoteIds : delete_note(id)

Idle == [state |-> "idle", token |-> NoneToken, outcome |-> ""]

Init ==
    /\ now = 0
    /\ users_by_id = [i \in {mock_user.id} |-> mock_user]
    /\ users_by_email = [e \in {mock_user.email} |-> mock_user]
    /\ passwords = [e \in {mock_user.email} |-> "LetMeIn!"]
    /\ has_validate_password = TRUE
    /\ refresh_tokens = [i \in {} |-> NoneToken]
    /\ issued = {}
    /\ used = {}
    /\ superseded = {}
    /\ last = NoCall
    /\ tasks = [i \in 1..NumTasks |-> Idle]
    /\ notes = [id \in {n.id : n \in mock_notes} |->
                  CHOOSE n \in mock_notes : n.id = id]
    /\ note_last = NoNoteCall

\* one second passes
Tick ==
    /\ now < MaxClock
    /\ now' = now + 1
    /\ last' = NoCall
    /\ UNCHANGED <<directory, refresh_tokens, history, tasks, notes_vars>>

\* login_tokens with the email written into the refresh token's subject
login_tokens_sub_email(user) ==
    [user |-> user,
     access |-> encode_token(user.id, user.email, AccessTTL),
     refresh |-> encode_refresh_token(user.email, RefreshTTL)]

\* the tokens login generates for a user
login_tokens(user) ==
    [user |-> user,
     access |-> encode_token(user.id, user.email, AccessTTL),
     refresh |-> encode_refresh_token(user.id, RefreshTTL)]

\* login that stores the refresh token before it verifies the password
login_store_before_check(email, password) ==
    LET outcome == login_outcome(email, password)
        r == login_tokens(get_by_email(email))
    IN  IF get_by_email(email) = NoneUser
        THEN /\ last' = Call("login", email, password, "", NoneToken, outcome,
                             NoneToken, NoneToken, NoneUser)
             /\ UNCHANGED <<now, directory, refresh_tokens, history, tasks, notes_vars>>
        ELSE IF outcome # "ok"
        THEN /\ refresh_tokens' = DictSet(refresh_tokens, r.user.id, r.refresh)
             /\ last' = Call("login", email, password, "", NoneToken, outcome,
                             NoneToken, NoneToken, NoneUser)
             /\ UNCHANGED <<now, directory, history, tasks, notes_vars>>
        ELSE /\ refresh_tokens' = DictSet(refresh_tokens, r.user.id, r.refresh)
             /\ issued' = issued \cup {r}
             /\ superseded' = superseded \cup
                    {i.refresh : i \in {j \in issued : j.user.id = r.user.id}}
             /\ last' = Call("login", email, password, "", NoneToken, "ok",
                             r.access, r.refresh, r.user)
             /\ UNCHANGED <<now, directory, used, tasks, notes_vars>>

login(email, password) ==
    LET outcome == login_outcome(email, password)
        r == login_tokens(get_by_email(email))
    IN  IF outcome # "ok"
        THEN /\ last' = Call("login", email, password, "", NoneToken, outcome,
                             NoneToken, NoneToken, NoneUser)
             /\ UNCHANGED <<now, directory, refresh_tokens, history, tasks, notes_vars>>
        ELSE /\ refresh_tokens' = DictSet(refresh_tokens, r.user.id, r.refresh)
             /\ issued' = issued \cup {r}
             /\ superseded' = superseded \cup
                    {i.refresh : i \in {j \in issued : j.user.id = r.user.id}}
             /\ last' = Call("login", email, password, "", NoneToken, "ok",
                             r.access, r.refresh, r.user)
             /\ UNCHANGED <<now, directory, used, tasks, notes_vars>>

\* the tokens refresh_token generates once its checks have passed
refresh_tokens_for(token) ==
    LET user == get_by_id(validate_token(token).claims.sub)
    IN  [user |-> user,
         access |-> encode_token(user.id, user.email, AccessTTL),
         refresh |-> encode_refresh_token(user.id, RefreshTTL)]

\* refresh_writes that leaves the store entry as it was
refresh_writes_no_store(token) ==
    LET r == refresh_tokens_for(token)
    IN  /\ issued' = issued \cup {r}
        /\ used' = used \cup {token}
        /\ UNCHANGED <<now, directory, superseded, refresh_tokens>>

\* the writes of a refresh_token call that passes its checks
refresh_writes(token) ==
    LET r == refresh_tokens_for(token)
    IN  /\ refresh_tokens' = DictSet(refresh_tokens, r.user.id, r.refresh)
        /\ issued' = issued \cup {r}
        /\ used' = used \cup {token}
        /\ UNCHANGED <<now, directory, superseded>>

refresh_token(token) ==
    LET outcome == refresh_outcome(token)
        r == refresh_tokens_for(token)
    IN  IF outcome # "ok"
        THEN /\ last' = Call("refresh_token", "", "", "", token, outcome,
                             NoneToken, NoneToken, NoneUser)
             /\ UNCHANGED <<now, directory, refresh_tokens, history, tasks, notes_vars>>
        ELSE /\ refresh_writes(token)
             /\ last' = Call("refresh_token", "", "", "", token, "ok",
                             r.access, r.refresh, r.user)
             /\ UNCHANGED <<tasks, notes_vars>>

get_current_user(token) ==
    /\ last' = Call("get_current_user", "", "", "", token, "ok",
                    NoneToken, NoneToken, current_user(token))
    /\ UNCHANGED <<now, directory, refresh_tokens, history, tasks, notes_vars>>

\* create_user that writes the by-id index before it checks the email
create_user_partial(user) ==
    IF user.id \in DOMAIN users_by_id
    THEN /\ last' = Call("create_user", user.email, "", user.id, NoneToken,
                         "User with id already exists", NoneToken, NoneToken,
                         user)
         /\ UNCHANGED <<now, directory, refresh_tokens, history, tasks, notes_vars>>
    ELSE IF user.email \in DOMAIN users_by_email
    THEN /\ users_by_id' = DictSet(users_by_id, user.id, user)
         /\ last' = Call("create_user", user.email, "", user.id, NoneToken,
                         "User with email already exists", NoneToken,
                         NoneToken, user)
         /\ UNCHANGED <<now, users_by_email, passwords, has_validate_password,
                        refresh_tokens, history, tasks, notes_vars>>
    ELSE /\ users_by_id' = DictSet(users_by_id, user.id, user)
         /\ users_by_email' = DictSet(users_by_email, user.email, user)
         /\ last' = Call("create_user", user.email, "", user.id, NoneToken,
                         "ok", NoneToken, NoneToken, user)
         /\ UNCHANGED <<now, passwords, has_validate_password, refresh_tokens,
                        history, tasks, notes_vars>>

\* create_user without the email check
create_user_no_email_check(user) ==
    IF user.id \in DOMAIN users_by_id
    THEN /\ last' = Call("create_user", user.email, "", user.id, NoneToken,
                         "User with id already exists", NoneToken, NoneToken,
                         user)
         /\ UNCHANGED <<now, directory, refresh_tokens, history, tasks, notes_vars>>
    ELSE /\ users_by_id' = DictSet(users_by_id, user.id, user)
         /\ users_by_email' = DictSet(users_by_email, user.email, user)
         /\ last' = Call("create_user", user.email, "", user.id, NoneToken,
                         "ok", NoneToken, NoneToken, user)
         /\ UNCHANGED <<now, passwords, has_validate_password, refresh_tokens,
                        history, tasks, notes_vars>>

authenticate(token) ==
    /\ last' = Call("authenticate", "", "", "", token, "ok",
                    NoneToken, NoneToken, authenticate_user(token))
    /\ UNCHANGED <<now, directory, refresh_tokens, history, tasks, notes_vars>>

create_user(user) ==
    IF user.id \in DOMAIN users_by_id
    THEN /\ last' = Call("create_user", user.email, "", user.id, NoneToken,
                         "User with id already exists", NoneToken, NoneToken,
                         user)
         /\ UNCHANGED <<now, directory, refresh_tokens, history, tasks, notes_vars>>
    ELSE IF user.email \in DOMAIN users_by_email
    THEN /\ last' = Call("create_user", user.email, "", user.id, NoneToken,
                         "User with email already exists", NoneToken,
                         NoneToken, user)
         /\ UNCHANGED <<now, directory, refresh_tokens, history, tasks, notes_vars>>
    ELSE /\ users_by_id' = DictSet(users_by_id, user.id, user)
         /\ users_by_email' = DictSet(users_by_email, user.email, user)
         /\ last' = Call("create_user", user.email, "", user.id, NoneToken,
                         "ok", NoneToken, NoneToken, user)
         /\ UNCHANGED <<now, passwords, has_validate_password, refresh_tokens,
                        history, tasks, notes_vars>>

Next ==
    \/ Tick
    \/ \E email \in Emails, password \in Passwords : login(email, password)
    \/ \E token \in InputTokens : refresh_token(token)
    \/ \E token \in InputTokens \cup SubjectTokens : get_current_user(token)
    \/ \E token \in InputTokens \cup SubjectTokens : authenticate(token)
    \/ \E user \in NewUsers : create_user(user)

Spec == Init /\ [][Next]_vars

\* ------------------------------------- the token repository used directly
store_refresh_token(user_id, token) ==
    /\ refresh_tokens' = DictSet(refresh_tokens, user_id, token)
    /\ last' = Call("store_refresh_token", "", "", user_id, token, "ok",
                    NoneToken, NoneToken, NoneUser)
    /\ UNCHANGED <<now, directory, history, tasks, notes_vars>>

\* revoke that empties the whole store
revoked_store_clear(user_id) == [x \in {} |-> NoneToken]

\* the store after revoke_refresh_token(user_id)
revoked_store(user_id) ==
    IF user_id \in DOMAIN refresh_tokens
    THEN DictDel(refresh_tokens, user_id)
    ELSE refresh_tokens

revoke_refresh_token(user_id) ==
    /\ refresh_tokens' = revoked_store(user_id)
    /\ last' = Call("revoke_refresh_token", "", "", user_id, NoneToken, "ok",
                    NoneToken, NoneToken, NoneUser)
    /\ UNCHANGED <<now, directory, history, tasks, notes_vars>>

\* ids and strings handed to the repository
StoreIds == {"user-1", "user-2"}
StoreTokens == IssuedRefresh \cup {Garbage("")}

NextRepo ==
    \/ Tick
    \/ \E email \in Emails : login(email, "LetMeIn!")
    \/ \E token \in IssuedRefresh : refresh_token(token)
    \/ \E user_id \in StoreIds, token \in StoreTokens :
          store_refresh_token(user_id, token)
    \/ \E user_id \in StoreIds : revoke_refresh_token(user_id)

SpecRepo == Init /\ [][NextRepo]_vars

\* --------------------------- refresh_token over a store filled directly
\* one token for each check of refresh_token to fail on: a refresh token of
\* user-1 that expires, the same with a foreign signature, an access token,
\* a refresh token without subject and one of a user the directory lacks
OrderRefresh ==
    jwt_encode(Claims("user-1", Absent, "refresh", RefreshTTL, 0),
               Secret, Algorithm)

OrderTokens ==
    { OrderRefresh,
      TamperSig(OrderRefresh),
      jwt_encode(Claims("user-1", "john.doe@ancorit.com", "access",
                        MaxClock, 0), Secret, Algorithm),
      jwt_encode(Claims(Absent, Absent, "refresh", MaxClock, 0),
                 Secret, Algorithm),
      jwt_encode(Claims("user-2", Absent, "refresh", MaxClock, 0),
                 Secret, Algorithm) }

NextOrder ==
    \/ Tick
    \/ \E token \in OrderTokens : refresh_token(token)
    \/ \E user_id \in StoreIds, token \in OrderTokens :
          store_refresh_token(user_id, token)

SpecOrder == Init /\ [][NextOrder]_vars

\* ------------------------- refresh calls submitted together (asyncio tasks)
\* Under the event loop a task runs until an awaited call suspends; the
\* in-memory repositories never suspend, so a submitted refresh_token call
\* runs from its first line to its return in one step.
Gather(token) ==
    /\ \A i \in 1..NumTasks : tasks[i].state = "idle"
    /\ tasks' = [i \in 1..NumTasks |->
                    [state |-> "pending", token |-> token, outcome |-> ""]]
    /\ last' = NoCall
    /\ UNCHANGED <<now, directory, refresh_tokens, history, notes_vars>>

Run(i) ==
    /\ tasks[i].state = "pending"
    /\ LET token == tasks[i].token
           outcome == refresh_outcome(token)
       IN  /\ tasks' = [tasks EXCEPT ![i] = [state |-> "done", token |-> token,
                                             outcome |-> outcome]]
           /\ IF outcome = "ok"
              THEN refresh_writes(token)
              ELSE UNCHANGED <<now, directory, refresh_tokens, history>>
    /\ last' = NoCall
    /\ UNCHANGED notes_vars

NextCoop ==
    \/ Tick
    \/ \E email \in Emails, password \in Passwords : login(email, password)
    \/ \E token \in IssuedRefresh : Gather(token)
    \/ \E i \in 1..NumTasks : Run(i)

SpecCoop == Init /\ [][NextCoop]_vars

\* -------------------- refresh calls that interleave at the repository calls
\* With parallel threads, or a repository whose awaited calls suspend, a
\* refresh_token call can be overtaken between validate_refresh_token and
\* store_refresh_token.  A call is taken in two steps: its checks up to and
\* including validate_refresh_token, then get_by_id, the token generation and
\* store_refresh_token.
refresh_precheck(token) ==
    LET payload == validate_token(token)
    IN  IF PayloadFalsy(payload) THEN InvalidRefreshToken
        ELSE IF payload.claims.type # "refresh" THEN InvalidTokenType
        ELSE IF NoSub(payload.claims) THEN InvalidTokenPayload
        ELSE IF ~validate_refresh_token(payload.claims.sub, token)
             THEN TokenRevoked
        ELSE "ok"

Check(i) ==
    /\ tasks[i].state = "pending"
    /\ LET token == tasks[i].token
           outcome == refresh_precheck(token)
       IN  tasks' = [tasks EXCEPT ![i] =
                        IF outcome = "ok"
                        THEN [state |-> "checked", token |-> token,
                              outcome |-> ""]
                        ELSE [state |-> "done", token |-> token,
                              outcome |-> outcome]]
    /\ last' = NoCall
    /\ UNCHANGED <<now, directory, refresh_tokens, history, notes_vars>>

\* the second half of the call works on the user_id decoded in the first
Finish(i) ==
    /\ tasks[i].state = "checked"
    /\ LET token == tasks[i].token
           user == get_by_id(token.claims.sub)
           r == [user |-> user,
                 access |-> encode_token(user.id, user.email, AccessTTL),
                 refresh |-> encode_refresh_token(user.id, RefreshTTL)]
       IN  IF user = NoneUser
           THEN /\ tasks' = [tasks EXCEPT ![i] =
                                [state |-> "done", token |-> token,
                                 outcome |-> UserNotFound]]
                /\ UNCHANGED <<now, directory, refresh_tokens, history>>
           ELSE /\ tasks' = [tasks EXCEPT ![i] =
                                [state |-> "done", token |-> token,
                                 outcome |-> "ok"]]
                /\ refresh_tokens' = DictSet(refresh_tokens, user.id, r.refresh)
                /\ issued' = issued \cup {r}
                /\ used' = used \cup {token}
                /\ UNCHANGED <<now, directory, superseded>>
    /\ last' = NoCall
    /\ UNCHANGED notes_vars

NextPar ==
    \/ Tick
    \/ \E email \in Emails, password \in Passwords : login(email, password)
    \/ \E token \in IssuedRefresh : Gather(token)
    \/ \E i \in 1..NumTasks : Check(i)
    \/ \E i \in 1..NumTasks : Finish(i)

SpecPar == Init /\ [][NextPar]_vars

\* the same calls under mutual exclusion per user id around the pair
\* validate_refresh_token .. store_refresh_token: a call enters its checks
\* only while no other call for that user id is between the two
LockHeld(user_id) ==
    \E j \in 1..NumTasks :
        tasks[j].state = "checked" /\ tasks[j].token.claims.sub = user_id

LockedCheck(i) ==
    /\ ~LockHeld(tasks[i].token.claims.sub)
    /\ Check(i)

NextLocked ==
    \/ Tick
    \/ \E email \in Emails, password \in Passwords : login(email, password)
    \/ \E token \in IssuedRefresh : Gather(token)
    \/ \E i \in 1..NumTasks : LockedCheck(i)
    \/ \E i \in 1..NumTasks : Finish(i)

SpecLocked == Init /\ [][NextLocked]_vars

\* ------------------- login and refresh calls of one user that overtake each
\* other between the token generation and store_refresh_token.  A call is
\* taken in two steps: its checks and the token generation (the clock is
\* read there), then store_refresh_token and the return.  A task that
\* generated tokens carries the refresh token it is about to store.
LoginMint(i, email, password) ==
    /\ tasks[i].state = "idle"
    /\ LET outcome == login_outcome(email, password)
           r == login_tokens(get_by_email(email))
       IN  tasks' = [tasks EXCEPT ![i] =
                        IF outcome = "ok"
                        THEN [state |-> "minted", token |-> r.refresh,
                              outcome |-> ""]
                        ELSE [state |-> "done", token |-> NoneToken,
                              outcome |-> outcome]]
    /\ last' = NoCall
    /\ UNCHANGED <<now, directory, refresh_tokens, history, notes_vars>>

RefreshMint(i, token) ==
    /\ tasks[i].state = "idle"
    /\ LET outcome == refresh_outcome(token)
           r == refresh_tokens_for(token)
       IN  tasks' = [tasks EXCEPT ![i] =
                        IF outcome = "ok"
                        THEN [state |-> "minted", token |-> r.refresh,
                              outcome |-> ""]
                        ELSE [state |-> "done", token |-> NoneToken,
                              outcome |-> outcome]]
    /\ last' = NoCall
    /\ UNCHANGED <<now, directory, refresh_tokens, history, notes_vars>>

\* the pair a call returns, rebuilt from the refresh token it generated
minted_pair(refresh) ==
    LET user == get_by_id(refresh.claims.sub)
    IN  [user |-> user,
         access |-> jwt_encode(Claims(user.id, user.email, "access",
                                      refresh.claims.iat + AccessTTL,
                                      refresh.claims.iat),
                               Secret, Algorithm),
         refresh |-> refresh]

\* store that keeps the entry when it was generated later than the token
StoreMinted_keep_newest(i) ==
    /\ tasks[i].state = "minted"
    /\ LET token == tasks[i].token
           user_id == token.claims.sub
       IN  /\ refresh_tokens' =
                 IF /\ user_id \in DOMAIN refresh_tokens
                    /\ refresh_tokens[user_id].claims.iat > token.claims.iat
                 THEN refresh_tokens
                 ELSE DictSet(refresh_tokens, user_id, token)
           /\ issued' = issued \cup {minted_pair(token)}
           /\ tasks' = [tasks EXCEPT ![i] = [state |-> "done", token |-> token,
                                             outcome |-> "ok"]]
           /\ last' = Call("store_refresh_token", "", "", user_id, token, "ok",
                           NoneToken, NoneToken, NoneUser)
    /\ UNCHANGED <<now, directory, used, superseded, notes_vars>>

\* store_refresh_token of the generated token, and the return of the call
StoreMinted(i) ==
    /\ tasks[i].state = "minted"
    /\ LET token == tasks[i].token
           user_id == token.claims.sub
       IN  /\ refresh_tokens' = DictSet(refresh_tokens, user_id, token)
           /\ issued' = issued \cup {minted_pair(token)}
           /\ tasks' = [tasks EXCEPT ![i] = [state |-> "done", token |-> token,
                                             outcome |-> "ok"]]
           /\ last' = Call("store_refresh_token", "", "", user_id, token, "ok",
                           NoneToken, NoneToken, NoneUser)
    /\ UNCHANGED <<now, directory, used, superseded, notes_vars>>

NextRace ==
    \/ Tick
    \/ login(mock_user.email, "LetMeIn!")
    \/ \E i \in 1..NumTasks, password \in Passwords :
          LoginMint(i, mock_user.email, password)
    \/ \E i \in 1..NumTasks, token \in IssuedRefresh : RefreshMint(i, token)
    \/ \E i \in 1..NumTasks : StoreMinted(i)

SpecRace == Init /\ [][NextRace]_vars

\* ------------------ the service over any repository of UserRepositoryPort
\* The port asks for get_by_email, get_by_id and create_user only, so the
\* repository handed to AuthenticationService may or may not have a
\* validate_password method; the credentials are the same in both cases.
InitPort ==
    /\ now = 0
    /\ users_by_id = [i \in {mock_user.id} |-> mock_user]
    /\ users_by_email = [e \in {mock_user.email} |-> mock_user]
    /\ passwords = [e \in {mock_user.email} |-> "LetMeIn!"]
    /\ has_validate_password \in BOOLEAN
    /\ refresh_tokens = [i \in {} |-> NoneToken]
    /\ issued = {}
    /\ used = {}
    /\ superseded = {}
    /\ last = NoCall
    /\ tasks = [i \in 1..NumTasks |-> Idle]
    /\ notes = [id \in {n.id : n \in mock_notes} |->
                  CHOOSE n \in mock_notes : n.id = id]
    /\ note_last = NoNoteCall

NextPort ==
    \/ Tick
    \/ \E email \in Emails, password \in Passwords : login(email, password)
    \/ \E token \in IssuedTokens : refresh_token(token)
    \/ \E token \in IssuedTokens : get_current_user(token)

SpecPort == InitPort /\ [][NextPort]_vars

\* ------------- access tokens while the refresh token is rotated or revoked
NextAccess ==
    \/ Tick
    \/ login(mock_user.email, "LetMeIn!")
    \/ \E token \in IssuedRefresh : refresh_token(token)
    \/ revoke_refresh_token(mock_user.id)
    \/ \E token \in IssuedAccess : get_current_user(token)

SpecAccess == Init /\ [][NextAccess]_vars

\* ------------------------------------ two users with refresh tokens each
\* A second user enters the directory through create_user; create_user
\* stores no password, so that user's refresh token reaches the store through
\* store_refresh_token and leaves it through revoke_refresh_token, while the
\* first user logs in.
second_user == User("user-2", "jane.roe@ancorit.com", "Jane Roe")

\* a refresh token of each user, as encode_refresh_token writes it at second 0
IsoTokens ==
    {jwt_encode(Claims(id, Absent, "refresh", RefreshTTL, 0), Secret, Algorithm) :
        id \in StoreIds}

NextIso ==
    \/ Tick
    \/ login(mock_user.email, "LetMeIn!")
    \/ create_user(second_user)
    \/ \E token \in IsoTokens : store_refresh_token(second_user.id, token)
    \/ \E token \in IsoTokens \cup {refresh_tokens[u] : u \in DOMAIN refresh_tokens} :
          refresh_token(token)
    \/ revoke_refresh_token(second_user.id)

SpecIso == Init /\ [][NextIso]_vars

\* ------------------------------------------------------------ notes routes
HTTP_201_CREATED == 201
HTTP_400_BAD_REQUEST == 400
HTTP_422_UNPROCESSABLE_ENTITY == 422
HTTP_500_INTERNAL_SERVER_ERROR == 500

\* title and content of a request body: plain, padded, blank and empty
SchemaTitles == NoteTitles \cup {<<>>}
SchemaContents == NoteContents \cup {<<>>}

\* the ids uuid4 hands out
Uuids == {<<"t">>, <<"u">>}

\* a response of the notes router: the exception class that ended the
\* handler, its text, the note built from the request and the status code
Response(op, id, exc, outcome, note, status) ==
    NoteCall(op, id, exc, outcome, note, status)

\* POST /notes.  NoteRequestSchema refuses an empty title or content before
\* the handler runs; the handler builds the note under a new uuid, calls
\* validate_entity and the service, and maps ValueError to 400.  An
\* exception of another class leaves the handler and the server answers 500.
post_note(title, content, uuid) ==
    LET note == Note(uuid, title, content)
    IN  /\ IF title = <<>> \/ content = <<>>
           THEN /\ note_last' = Response("POST /notes", <<>>,
                                         "RequestValidationError",
                                         "string too short", NoneNote,
                                         HTTP_422_UNPROCESSABLE_ENTITY)
                /\ UNCHANGED notes
           ELSE IF validate_entity(note) # <<>>
           THEN /\ note_last' = Response("POST /notes", uuid,
                                         "ValidationError", "Validation failed",
                                         note, HTTP_500_INTERNAL_SERVER_ERROR)
                /\ UNCHANGED notes
           ELSE IF note.id \in DOMAIN notes
           THEN /\ note_last' = Response("POST /notes", uuid, "ValueError",
                                         "already exists", note,
                                         HTTP_400_BAD_REQUEST)
                /\ UNCHANGED notes
           ELSE /\ notes' = DictSet(notes, note.id, note)
                /\ note_last' = Response("POST /notes", uuid, "", "ok", note,
                                         HTTP_201_CREATED)
        /\ UNCHANGED auth_vars

NextRoutes ==
    \/ \E title \in SchemaTitles, content \in SchemaContents, uuid \in Uuids :
          post_note(title, content, uuid)
    \/ \E id \in NoteIds \cup Uuids : get_note_by_id(id)
    \/ \E id \in NoteIds \cup Uuids : delete_note(id)

SpecRoutes == Init /\ [][NextRoutes]_vars

SpecNotes == Init /\ [][NextNotes]_vars

\* --------------------------------------- the user directory used directly
\* users handed to create_user: every id with every email, under two names
DirUsers ==
    {User(id, email, name) :
        id \in UserIds, email \in Emails, name \in {"Jane Roe", "Jim Poe"}}

\* str(bool) of the value a call returned
Bool(b) == IF b THEN "True" ELSE "False"

\* a call of InMemoryUserRepository.validate_password
check_password(email, password) ==
    /\ last' = Call("validate_password", email, password, "", NoneToken,
                    Bool(validate_password(email, password)),
                    NoneToken, NoneToken, NoneUser)
    /\ UNCHANGED <<now, directory, refresh_tokens, history, tasks, notes_vars>>

NextDir ==
    \/ \E user \in DirUsers : create_user(user)
    \/ \E email \in Emails, password \in Passwords \cup {""} :
          check_password(email, password)

SpecDir == Init /\ [][NextDir]_vars

\* ================================================================ properties
\* tokens only the holder of the secret could sign: with and without
\* subject, of both types, expiring at once, late or never
KeyHolderTokens ==
    {jwt_encode(Claims(sub, Absent, type, exp, 0), Secret, Algorithm) :
        sub \in {"user-1", Absent},
        type \in {"access", "refresh"},
        exp \in {0, MaxClock, NoExp}}

\* tokens signed with the configured secret but another algorithm
WrongAlgTokens ==
    {jwt_encode(t.claims, Secret, OtherAlgorithm) : t \in IssuedTokens}

\* tokens whose signature does not come from the configured secret and
\* algorithm over the claims they carry, and strings that are no token
BadTokens ==
    UNION {Forged(t) : t \in IssuedTokens} \cup WrongAlgTokens \cup NotTokens

TokenUniverse == IssuedTokens \cup KeyHolderTokens \cup BadTokens

\* the token verifies at the current clock value (signature and expiry)
Unexpired(t) == t.claims.exp >= now

\* C1: for every user of the directory with a stored password, login with
\* that password returns an access and a refresh token, and until the access
\* token expires get_current_user resolves it to that same user; the login
\* of john.doe@ancorit.com with "LetMeIn!" resolves to user-1.
C1_LoginThenResolve ==
    /\ (/\ last.op = "login"
        /\ last.email \in DOMAIN users_by_email
        /\ last.email \in DOMAIN passwords
        /\ last.password = passwords[last.email])
       => /\ last.outcome = "ok"
          /\ last.access.fmt = "jwt"
          /\ last.refresh.fmt = "jwt"
          /\ last.user = users_by_email[last.email]
          /\ current_user(last.access) = last.user
    /\ \A i \in issued :
          Unexpired(i.access) =>
             /\ current_user(i.access) = i.user
             /\ i.user \in {users_by_id[k] : k \in DOMAIN users_by_id}
    /\ (/\ last.op = "login"
        /\ last.email = "john.doe@ancorit.com"
        /\ last.password = "LetMeIn!")
       => current_user(last.access).id = "user-1"
    /\ (/\ last.op = "get_current_user"
        /\ \E i \in issued : i.access = last.token /\ Unexpired(i.access))
       => \E i \in issued : i.access = last.token /\ last.user = i.user

\* C1 witness: a second after the login the access token is resolved to the
\* user that logged in
C1_Witness ==
    /\ last.op = "get_current_user"
    /\ last.token \in IssuedAccess
    /\ last.token.claims.iat < now
    /\ last.user = mock_user

\* C2: once a refresh with a token has succeeded, no later refresh_token call
\* presenting that token succeeds.
C2_SingleUse == \A t \in used : refresh_outcome(t) # "ok"

\* C3: the refresh token returned by a successful refresh_token call differs
\* from the token presented.
C3_RefreshReturnsNewToken ==
    (last.op = "refresh_token" /\ last.outcome = "ok")
       => last.refresh # last.token

\* C4 as stated: every issued access token presented to refresh_token is
\* rejected with the wrong-type outcome.
C4_AccessAlwaysWrongType ==
    /\ \A a \in IssuedAccess : refresh_outcome(a) = InvalidTokenType
    /\ (last.op = "refresh_token" /\ last.token \in IssuedAccess)
          => last.outcome = InvalidTokenType

\* the outcome of refresh_token for an issued access token
AccessOutcome(a) ==
    IF Unexpired(a) THEN InvalidTokenType ELSE InvalidRefreshToken

C4_Rejected ==
    /\ \A a \in IssuedAccess : refresh_outcome(a) = AccessOutcome(a)
    /\ \A r \in IssuedRefresh : current_user(r) = NoneUser
    /\ (last.op = "refresh_token" /\ last.token \in IssuedAccess)
          => last.outcome = AccessOutcome(last.token)
    /\ (last.op = "get_current_user" /\ last.token \in IssuedRefresh)
          => last.user = NoneUser

C4_NoWrite ==
    \A a \in IssuedAccess :
        refresh_token(a) => UNCHANGED <<refresh_tokens, directory, history>>

\* C4 (amended): an issued access token presented to refresh_token is
\* rejected and changes nothing, with the wrong-type outcome while it is
\* unexpired and with the invalid-token outcome once it has expired; an
\* issued refresh token presented to get_current_user yields None, also
\* while it is the stored token.
C4_TypesNotInterchangeable == []C4_Rejected /\ [][C4_NoWrite]_vars

\* C4 witness: an unexpired access token was refused by refresh_token as
\* wrong type while the stored refresh token resolves to no user
C4_Witness ==
    /\ last.op = "refresh_token"
    /\ last.token \in IssuedAccess
    /\ last.outcome = InvalidTokenType
    /\ \E u \in DOMAIN refresh_tokens :
          /\ refresh_tokens[u] \in IssuedRefresh
          /\ Unexpired(refresh_tokens[u])
          /\ current_user(refresh_tokens[u]) = NoneUser

\* C5: login fails with "Invalid credentials" when the email is unknown or
\* the password is not the stored one, and returns no token; the outcome is
\* the same in both cases.
C5_InvalidCredentials ==
    /\ (/\ last.op = "login"
        /\ \/ last.email \notin DOMAIN users_by_email
           \/ last.email \notin DOMAIN passwords
           \/ passwords[last.email] # last.password)
       => /\ last.outcome = InvalidCredentials
          /\ last.access = NoneToken
          /\ last.refresh = NoneToken
    /\ \A e \in Emails, p \in Passwords :
          login_outcome(e, p) \in {"ok", InvalidCredentials}
    /\ login_outcome("nobody@example.com", "LetMeIn!")
          = login_outcome("john.doe@ancorit.com", "wrong")

\* C5 witness: the login of john.doe@ancorit.com with "wrong" was refused
C5_Witness ==
    /\ last.op = "login"
    /\ last.email = "john.doe@ancorit.com"
    /\ last.password = "wrong"
    /\ last.outcome = InvalidCredentials

\* C6: a refresh token of a user that was followed by another successful
\* login of that user is refused as revoked while it is unexpired.
C6_LoginInvalidatesPrevious ==
    \A r \in superseded : Unexpired(r) => refresh_outcome(r) = TokenRevoked

\* the strings that are or were in the store, and every token handed out
StoreUniverse ==
    IssuedTokens \cup KeyHolderTokens \cup NotTokens
       \cup {refresh_tokens[u] : u \in DOMAIN refresh_tokens}

\* C7: the store holds one entry per user id, store_refresh_token leaves its
\* argument as the entry, and refresh_token accepts no token other than the
\* entry of the token's subject: at most one token per user is accepted.
C7_AtMostOneAccepted ==
    /\ \A t \in StoreUniverse :
          refresh_outcome(t) = "ok" =>
             /\ t.claims.sub \in DOMAIN refresh_tokens
             /\ refresh_tokens[t.claims.sub] = t
    /\ \A u \in UserIds :
          Cardinality({t \in StoreUniverse :
                          refresh_outcome(t) = "ok" /\ t.claims.sub = u}) <= 1
    /\ last.op = "store_refresh_token"
          => get_refresh_token(last.user_id) = last.token

\* C7 witness: store_refresh_token replaced the entry of user-1; the token it
\* wrote is accepted and another unexpired issued token is refused
C7_Witness ==
    /\ last.op = "store_refresh_token"
    /\ last.user_id = "user-1"
    /\ refresh_outcome(last.token) = "ok"
    /\ \E t \in IssuedRefresh :
          /\ t # last.token
          /\ Unexpired(t)
          /\ refresh_outcome(t) = TokenRevoked

\* C8: of the refresh_token calls submitted together with one token, at most
\* one succeeds.
C8_AtMostOneSucceeds ==
    Cardinality({i \in 1..NumTasks : tasks[i].outcome = "ok"}) <= 1

\* C9: a token whose exp lies before the clock does not validate, whatever
\* its signature; refresh_token then fails with the invalid-token outcome and
\* get_current_user returns None.
C9_ExpiredRejected ==
    /\ \A t \in TokenUniverse :
          (t.claims.exp # NoExp /\ t.claims.exp < now) =>
             /\ validate_token(t) = JWTError
             /\ refresh_outcome(t) = InvalidRefreshToken
             /\ current_user(t) = NoneUser
    /\ (/\ last.op = "refresh_token"
        /\ last.token.claims.exp # NoExp
        /\ last.token.claims.exp < now)
       => last.outcome = InvalidRefreshToken
    /\ (/\ last.op = "get_current_user"
        /\ last.token.claims.exp # NoExp
        /\ last.token.claims.exp < now)
       => last.user = NoneUser

\* C9 witness: the stored, correctly signed refresh token was presented after
\* its expiry and refused as invalid
C9_Witness ==
    /\ last.op = "refresh_token"
    /\ last.token \in IssuedRefresh
    /\ last.token.claims.exp < now
    /\ get_refresh_token(last.token.claims.sub) = last.token
    /\ last.outcome = InvalidRefreshToken

\* C10: validate_token returns claims only for a token signed with the
\* configured secret and algorithm over the claims it carries; a string that
\* is no token, a token signed with another secret or algorithm and a token
\* whose signature or signed content was altered all give None.
C10_SignatureRequired ==
    /\ \A t \in TokenUniverse :
          validate_token(t).ok =>
             /\ t.fmt = "jwt"
             /\ t.alg = Algorithm
             /\ t.sig = HMAC(Secret, Algorithm, t.claims)
             /\ validate_token(t).claims = t.claims
    /\ \A t \in BadTokens : validate_token(t) = JWTError
    /\ (last.op = "refresh_token" /\ last.token \in BadTokens)
          => last.outcome = InvalidRefreshToken
    /\ (last.op = "get_current_user" /\ last.token \in BadTokens)
          => last.user = NoneUser

\* C10 witness: the stored refresh token with an altered signature was
\* presented and refused as invalid
C10_Witness ==
    /\ last.op = "refresh_token"
    /\ \E u \in DOMAIN refresh_tokens :
          /\ Unexpired(refresh_tokens[u])
          /\ last.token = TamperSig(refresh_tokens[u])
    /\ last.outcome = InvalidRefreshToken

\* the user get_current_user has to return for a token, stated from the
\* token's parts
Verifies(t) ==
    /\ t.fmt = "jwt"
    /\ t.alg = Algorithm
    /\ t.sig = HMAC(Secret, Algorithm, t.claims)
    /\ (t.claims.exp = NoExp \/ t.claims.exp >= now)

ExpectedUser(t) ==
    IF ~Verifies(t) THEN NoneUser
    ELSE IF t.claims.type # "access" THEN NoneUser
    ELSE IF t.claims.sub \in {Absent, ""} THEN NoneUser
    ELSE IF t.claims.sub \notin DOMAIN users_by_id THEN NoneUser
    ELSE users_by_id[t.claims.sub]

\* C11: get_current_user returns a value for every input: None when the
\* token does not verify, is not of type access, has no subject or names an
\* id that is not in the directory, and the directory's user otherwise.
C11_CurrentUserTotal ==
    /\ \A t \in TokenUniverse \cup SubjectTokens :
          current_user(t) = ExpectedUser(t)
    /\ last.op = "get_current_user"
          => /\ last.outcome = "ok"
             /\ last.user = ExpectedUser(last.token)

\* C11 witness: a verified access token naming user-2 was presented while
\* user-2 was not in the directory, and None came back
C11_Witness ==
    /\ last.op = "get_current_user"
    /\ Verifies(last.token)
    /\ last.token.claims.type = "access"
    /\ last.token.claims.sub = "user-2"
    /\ "user-2" \notin DOMAIN users_by_id
    /\ last.user = NoneUser

\* C12: any two refresh requests that fail get the same response, status
\* and detail text, whatever made them fail.
C12_UniformFailure ==
    \A t1 \in InputTokens, t2 \in InputTokens :
        (/\ refresh_response(t1).status # HTTP_200_OK
         /\ refresh_response(t2).status # HTTP_200_OK)
        => refresh_response(t1) = refresh_response(t2)

\* C13: validate_refresh_token(user_id, token) is true exactly when the store
\* has an entry for user_id and the entry is the token, the empty string
\* included.
C13_ValidateIffStored ==
    \A u \in StoreIds, t \in StoreUniverse :
        validate_refresh_token(u, t)
           <=> (u \in DOMAIN refresh_tokens /\ refresh_tokens[u] = t)

\* what revoke_refresh_token leaves behind, and the refresh of a token whose
\* subject has no entry; Outcome(t) is the outcome required of such a refresh
C14_After(Outcome(_)) ==
    /\ last.op = "revoke_refresh_token"
          => /\ last.outcome = "ok"
             /\ get_refresh_token(last.user_id) = NoneToken
             /\ \A t \in StoreUniverse :
                   ~validate_refresh_token(last.user_id, t)
             /\ revoked_store(last.user_id) = refresh_tokens
    /\ \A t \in IssuedRefresh :
          t.claims.sub \notin DOMAIN refresh_tokens
             => refresh_outcome(t) = Outcome(t)

AlwaysRevoked(t) == TokenRevoked
RevokedOrExpired(t) ==
    IF Unexpired(t) THEN TokenRevoked ELSE InvalidRefreshToken

\* C14 as stated: after a revoke the entry is gone, a second revoke changes
\* nothing, and a refresh with a token of a user without entry fails with
\* the revoked outcome.
C14_RevokeThenAlwaysRevoked == C14_After(AlwaysRevoked)

C14_OthersUntouched ==
    \A u \in StoreIds :
        revoke_refresh_token(u) =>
           /\ \A v \in StoreIds \ {u} :
                 /\ (v \in DOMAIN refresh_tokens')
                       <=> (v \in DOMAIN refresh_tokens)
                 /\ v \in DOMAIN refresh_tokens
                       => refresh_tokens'[v] = refresh_tokens[v]
           /\ u \notin DOMAIN refresh_tokens'
           /\ UNCHANGED directory

\* C14 (amended): revoke_refresh_token never raises, leaves no entry for the
\* user (get is None, validate is false for every string), changes nothing
\* when applied again and leaves the other users' entries alone; until the
\* user has an entry again a refresh with one of the user's tokens fails,
\* with the revoked outcome while the token is unexpired and with the
\* invalid-token outcome once it has expired.
C14_RevokeIdempotent ==
    []C14_After(RevokedOrExpired) /\ [][C14_OthersUntouched]_vars

\* C14 witness: the entry of user-1 was revoked while user-2 keeps an entry,
\* and an unexpired token of user-1 is refused as revoked
C14_Witness ==
    /\ last.op = "revoke_refresh_token"
    /\ last.user_id = "user-1"
    /\ "user-2" \in DOMAIN refresh_tokens
    /\ \E t \in IssuedRefresh :
          /\ t.claims.sub = "user-1"
          /\ Unexpired(t)
          /\ refresh_outcome(t) = TokenRevoked

\* C15: create_user for a user whose id or email is already in the directory
\* fails and leaves the by-id and the by-email index as they were.
C15_ConflictKeepsIndexes ==
    [][\A user \in DirUsers :
          (/\ create_user(user)
           /\ \/ user.id \in DOMAIN users_by_id
              \/ user.email \in DOMAIN users_by_email)
          => /\ last'.outcome \in {"User with id already exists",
                                   "User with email already exists"}
             /\ UNCHANGED <<users_by_id, users_by_email>>]_vars

\* C15 witness: a create_user call failed on the email alone and its id is
\* in no index
C15_Witness ==
    /\ last.op = "create_user"
    /\ last.outcome = "User with email already exists"
    /\ last.user_id \notin DOMAIN users_by_id
    /\ last.email \in DOMAIN users_by_email

\* C16: ids are unique, emails are unique, and the two indexes hold the same
\* users: get_by_id(u.id) = u exactly when get_by_email(u.email) = u.
C16_IndexesAgree ==
    /\ \A k \in DOMAIN users_by_id :
          /\ users_by_id[k].id = k
          /\ get_by_email(users_by_id[k].email) = users_by_id[k]
    /\ \A e \in DOMAIN users_by_email :
          /\ users_by_email[e].email = e
          /\ get_by_id(users_by_email[e].id) = users_by_email[e]
    /\ \A k1 \in DOMAIN users_by_id, k2 \in DOMAIN users_by_id :
          k1 # k2 => users_by_id[k1].email # users_by_id[k2].email
    /\ \A u \in DirUsers \cup {mock_user} :
          (get_by_id(u.id) = u) <=> (get_by_email(u.email) = u)

\* C16 witness: two create_user calls have succeeded
C16_Witness ==
    /\ last.op = "create_user"
    /\ last.outcome = "ok"
    /\ Cardinality(DOMAIN users_by_id) = 3
    /\ Cardinality(DOMAIN users_by_email) = 3

\* C17: validate_password(email, plaintext) is true exactly when a credential
\* is stored for the email and equals the plaintext, and false for an email
\* without credential.
C17_PasswordIffStored ==
    /\ \A e \in Emails, p \in Passwords \cup {""} :
          validate_password(e, p)
             <=> (e \in DOMAIN passwords /\ passwords[e] = p)
    /\ last.op = "validate_password"
          => last.outcome =
                Bool(/\ last.email \in DOMAIN passwords
                     /\ passwords[last.email] = last.password)

\* C17 witness: validate_password returned False for a user of the directory
\* that has no credential
C17_Witness ==
    /\ last.op = "validate_password"
    /\ last.email \in DOMAIN users_by_email
    /\ last.email \notin DOMAIN passwords
    /\ last.outcome = "False"

\* C18: JWTAuthProvider.authenticate returns for every token, in every state
\* of the shared directory, what get_current_user returns.
C18_ProviderEquivalent ==
    /\ \A t \in TokenUniverse \cup SubjectTokens :
          authenticate_user(t) = current_user(t)
    /\ last.op = "authenticate" => last.user = current_user(last.token)
    /\ last.op = "get_current_user"
          => last.user = authenticate_user(last.token)

\* C18 witness: the provider resolved an issued access token to its user
C18_Witness ==
    /\ last.op = "authenticate"
    /\ last.token \in IssuedAccess
    /\ last.user = mock_user
    /\ current_user(last.token) = mock_user

C19_Stored ==
    /\ (note_last.op = "create_note" /\ note_last.outcome = "ok")
          => /\ note_last.id \in DOMAIN notes
             /\ notes[note_last.id].id = note_last.note.id
             /\ notes[note_last.id].title = note_last.note.title
             /\ notes[note_last.id].content = note_last.note.content
    /\ (note_last.op = "get_note_by_id" /\ note_last.id \in DOMAIN notes)
          => /\ note_last.outcome = "ok"
             /\ note_last.note = notes[note_last.id]
    /\ note_last.op = "none" => get_notes_result # {}
    /\ (note_last.op = "get_notes" /\ notes = [id \in {n.id : n \in mock_notes}
                                        |-> CHOOSE n \in mock_notes : n.id = id])
          => note_last.count > 0

C19_Kept ==
    \A id \in DOMAIN notes :
        (id \notin DOMAIN notes' \/ notes'[id] # notes[id])
           => /\ note_last'.op \in {"update_note", "delete_note"}
              /\ note_last'.id = id

\* C19: a note created under a new id is what get_note_by_id returns for
\* that id, with the same id, title and content, until a call updates or
\* deletes that id; a fresh repository has notes.
C19_CreateThenGet == []C19_Stored /\ [][C19_Kept]_vars

\* C19 witness: a note created under the new id was read back
C19_Witness ==
    /\ note_last.op = "get_note_by_id"
    /\ note_last.id = <<"t">>
    /\ note_last.outcome = "ok"
    /\ note_last.note \in InputNotes
    /\ note_last.note.id = <<"t">>

\* the store holds the token under the token's subject
StoredAsCurrent(t) ==
    /\ t.fmt = "jwt"
    /\ t.claims.sub \in DOMAIN refresh_tokens
    /\ refresh_tokens[t.claims.sub] = t

\* the first check of refresh_token a token fails, stated from its parts
ExpectedRefreshOutcome(t) ==
    IF ~Verifies(t) THEN InvalidRefreshToken
    ELSE IF t.claims.type # "refresh" THEN InvalidTokenType
    ELSE IF t.claims.sub \in {Absent, ""} THEN InvalidTokenPayload
    ELSE IF ~StoredAsCurrent(t) THEN TokenRevoked
    ELSE IF t.claims.sub \notin DOMAIN users_by_id THEN UserNotFound
    ELSE "ok"

OrderUniverse ==
    OrderTokens \cup TokenUniverse
       \cup {refresh_tokens[u] : u \in DOMAIN refresh_tokens}

\* C20: refresh_token reports the first failing check in the order
\* signature and expiry, token type, subject, store match, user lookup: a
\* token that is expired or wrongly signed is refused as invalid even when
\* the store holds it, an access token is refused for its type though the
\* store does not hold it, and only a verified refresh token with a subject
\* is refused as revoked.
C20_FirstFailingCheck ==
    /\ \A t \in OrderUniverse :
          /\ refresh_outcome(t) = ExpectedRefreshOutcome(t)
          /\ (~Verifies(t) /\ StoredAsCurrent(t))
                => refresh_outcome(t) = InvalidRefreshToken
          /\ (Verifies(t) /\ t.claims.type = "access" /\ ~StoredAsCurrent(t))
                => refresh_outcome(t) = InvalidTokenType
          /\ refresh_outcome(t) = TokenRevoked
                => /\ Verifies(t)
                   /\ t.claims.type = "refresh"
                   /\ t.claims.sub \notin {Absent, ""}
    /\ (last.op = "refresh_token" /\ last.outcome # "ok")
          => last.outcome = ExpectedRefreshOutcome(last.token)

\* C20 witness: the store holds a wrongly signed token under its subject and
\* refresh_token refused that token as invalid, not as revoked
C20_Witness ==
    /\ last.op = "refresh_token"
    /\ last.token = TamperSig(OrderRefresh)
    /\ StoredAsCurrent(last.token)
    /\ last.outcome = InvalidRefreshToken

\* the store entries of every id but user_id are the same before and after
SameExceptFor(user_id) ==
    \A u \in (DOMAIN refresh_tokens \cup DOMAIN refresh_tokens') \ {user_id} :
        /\ u \in DOMAIN refresh_tokens
        /\ u \in DOMAIN refresh_tokens'
        /\ refresh_tokens'[u] = refresh_tokens[u]

C21_Frame ==
    /\ (last'.op \in {"login", "refresh_token"} /\ last'.outcome # "ok")
          => UNCHANGED <<refresh_tokens, directory>>
    /\ last'.op \in {"get_current_user", "authenticate"}
          => UNCHANGED <<refresh_tokens, directory>>
    /\ last'.op \in {"login", "refresh_token"} => UNCHANGED directory
    /\ refresh_tokens' # refresh_tokens
          => /\ last'.op \in {"login", "refresh_token"}
             /\ last'.outcome = "ok"
             /\ last'.user # NoneUser
             /\ SameExceptFor(last'.user.id)
             /\ refresh_tokens'[last'.user.id] = last'.refresh

\* C21: a login or refresh_token that fails and every get_current_user call
\* leave the refresh token store and the user directory as they were; the
\* store changes only in a login or refresh_token that succeeds, and then
\* only in the entry of the user the call authenticated.
C21_FailuresWriteNothing == [][C21_Frame]_vars

\* C21 witness: with a refresh token of user-1 in the store, a login of
\* user-1 was refused and the store still holds that token
C21_Witness ==
    /\ last.op = "login"
    /\ last.email = mock_user.email
    /\ last.outcome = InvalidCredentials
    /\ mock_user.id \in DOMAIN refresh_tokens
    /\ refresh_tokens[mock_user.id] \in IssuedRefresh

\* two of the calls submitted together succeeded with the same refresh token
BothSucceed ==
    \E i, j \in 1..NumTasks :
        /\ i # j
        /\ tasks[i].state = "done" /\ tasks[i].outcome = "ok"
        /\ tasks[j].state = "done" /\ tasks[j].outcome = "ok"
        /\ tasks[i].token = tasks[j].token

\* C22: with validate_refresh_token and store_refresh_token of a call made
\* atomic per user id, no execution has two refresh_token calls succeed with
\* the same refresh token.
C22_AtomicPairSingleSuccess == ~BothSucceed

\* the racing calls have all returned
AllReturned == \A i \in 1..NumTasks : tasks[i].state = "done"

\* the refresh tokens the racing calls returned
Returned ==
    {tasks[i].token : i \in {j \in 1..NumTasks : tasks[j].outcome = "ok"}}

C23_After(Outcome(_)) ==
    AllReturned =>
       /\ \A t \in Returned :
             /\ (StoredAsCurrent(t) /\ Unexpired(t)) => refresh_outcome(t) = "ok"
             /\ ~StoredAsCurrent(t) => refresh_outcome(t) = Outcome(t)
       /\ \A t \in Returned \cup IssuedRefresh :
             refresh_outcome(t) = "ok" => StoredAsCurrent(t)

\* C23 as stated: once the racing calls have returned, every token they
\* returned other than the stored one is refused as revoked.
C23_OthersAlwaysRevoked == C23_After(AlwaysRevoked)

C23_Writes ==
    /\ last'.op = "store_refresh_token"
          => refresh_tokens' = DictSet(refresh_tokens, last'.user_id, last'.token)
    /\ refresh_tokens' # refresh_tokens
          => \/ last'.op = "store_refresh_token"
             \/ /\ last'.op = "login"
                /\ refresh_tokens' =
                      DictSet(refresh_tokens, last'.user.id, last'.refresh)

\* C23 (amended): each store_refresh_token call replaces the user's entry by
\* its token, so after racing logins and refreshes have returned the store
\* holds the token of the store call that ran last; a later refresh_token
\* accepts only that token, and refuses every other token the calls
\* returned, as revoked while it is unexpired and as invalid once it has
\* expired.
C23_LastWriteWins == []C23_After(RevokedOrExpired) /\ [][C23_Writes]_vars

\* C23 witness: two racing calls returned different tokens, the store holds
\* the one generated first because its store ran last, and the other is
\* refused as revoked
C23_Witness ==
    /\ AllReturned
    /\ \E t, u \in Returned :
          /\ t.claims.iat < u.claims.iat
          /\ StoredAsCurrent(t)
          /\ Unexpired(t)
          /\ Unexpired(u)
          /\ refresh_outcome(t) = "ok"
          /\ refresh_outcome(u) = TokenRevoked

\* C24: whatever repository of UserRepositoryPort the service is built on,
\* with or without a validate_password method, a login for an existing email
\* with a password that is not the user's fails with the invalid-credentials
\* outcome and returns no tokens.
C24_PasswordAlwaysVerified ==
    (/\ last.op = "login"
     /\ last.email \in DOMAIN users_by_email
     /\ validate_password(last.email, last.password) = FALSE)
       => /\ last.outcome = InvalidCredentials
          /\ last.access = NoneToken
          /\ last.refresh = NoneToken
          /\ last.refresh \notin IssuedRefresh

\* C25: every entry of the refresh token store is keyed by the id of a user
\* of the directory and holds a refresh token whose subject is that id, so
\* no refresh_token call ends in the user-not-found outcome.
C25_StoreEntriesBelongToUsers ==
    /\ \A u \in DOMAIN refresh_tokens :
          /\ u \in DOMAIN users_by_id
          /\ users_by_id[u].id = u
          /\ refresh_tokens[u].fmt = "jwt"
          /\ refresh_tokens[u].claims.sub = u
          /\ refresh_tokens[u].claims.type = "refresh"
    /\ last.op = "refresh_token" => last.outcome # UserNotFound
    /\ \A t \in TokenUniverse \cup InputTokens :
          refresh_outcome(t) # UserNotFound

\* C25 witness: with a second user in the directory, a refresh of user-1
\* succeeded and the store holds the token it returned
C25_Witness ==
    /\ last.op = "refresh_token"
    /\ last.outcome = "ok"
    /\ "user-2" \in DOMAIN users_by_id
    /\ last.user.id \in DOMAIN refresh_tokens
    /\ refresh_tokens[last.user.id] = last.refresh

C26_LatestStored ==
    /\ (last.op \in {"login", "refresh_token"} /\ last.outcome = "ok")
          => /\ StoredAsCurrent(last.refresh)
             /\ Unexpired(last.refresh)
             /\ refresh_outcome(last.refresh) = "ok"
    /\ \A u \in DOMAIN refresh_tokens :
          /\ refresh_tokens[u] \in IssuedRefresh
          /\ Unexpired(refresh_tokens[u])
                => refresh_outcome(refresh_tokens[u]) = "ok"

C26_LatestReplaces ==
    refresh_tokens' # refresh_tokens
       => /\ last'.op \in {"login", "refresh_token"}
          /\ last'.outcome = "ok"
          /\ refresh_tokens'[last'.user.id] = last'.refresh

\* C26: the store always holds the refresh token returned by the user's
\* latest successful login or refresh_token, and refresh_token with that
\* token succeeds as long as the token has not expired.
C26_NewestTokenUsable == []C26_LatestStored /\ [][C26_LatestReplaces]_vars

\* C26 witness: a chain of refreshes, each with the token the one before
\* returned, in three consecutive seconds
C26_Witness ==
    /\ last.op = "refresh_token"
    /\ last.outcome = "ok"
    /\ last.token.claims.iat = 1
    /\ last.refresh.claims.iat = 2
    /\ last.token \in {i.refresh : i \in issued}
    /\ \E t \in used : t.claims.iat = 0

\* the refresh token issued together with an access token is out of use
Retired(i) == ~StoredAsCurrent(i.refresh)

\* C27: an access token returned by login or refresh_token resolves to its
\* user through get_current_user until its own expiry, whether the user's
\* refresh token has since been rotated, overwritten by a login or revoked.
C27_AccessOutlivesRotation ==
    /\ \A i \in issued :
          current_user(i.access) =
             IF Unexpired(i.access) THEN i.user ELSE NoneUser
    /\ (last.op = "get_current_user" /\ last.token \in IssuedAccess)
          => last.user = IF Unexpired(last.token) THEN mock_user ELSE NoneUser

\* C27 witness: after the user's refresh token was revoked, an access token
\* issued a second earlier still resolved to the user
C27_Witness ==
    /\ last.op = "get_current_user"
    /\ last.token \in IssuedAccess
    /\ last.token.claims.iat < now
    /\ last.user = mock_user
    /\ mock_user.id \notin DOMAIN refresh_tokens
    /\ \A i \in issued : Retired(i)

\* the user id a login, refresh_token or revoke acted for
ActedFor(call) ==
    IF call.op = "revoke_refresh_token" THEN call.user_id ELSE call.user.id

C28_OwnEntryOnly ==
    /\ (last'.op \in {"login", "refresh_token"} /\ last'.outcome # "ok")
          => refresh_tokens' = refresh_tokens
    /\ (\/ last'.op = "revoke_refresh_token"
        \/ last'.op \in {"login", "refresh_token"} /\ last'.outcome = "ok")
          => SameExceptFor(ActedFor(last'))
    /\ (last'.op = "refresh_token" /\ last'.outcome = "ok")
          => /\ last'.user.id = last'.token.claims.sub
             /\ refresh_tokens[last'.user.id] = last'.token
             /\ last'.refresh.claims.sub = last'.user.id
             /\ last'.access.claims.sub = last'.user.id

C28_NotAcceptedAsAnothers ==
    \A t \in IsoTokens \cup IssuedRefresh :
        refresh_outcome(t) = "ok" => StoredAsCurrent(t)

\* C28: a login, refresh_token or revoke for one user leaves the store entry
\* of every other user as it was, and refresh_token accepts a token only from
\* the store entry keyed by the token's own subject, never because another
\* user's entry holds it.
C28_UsersIsolated == []C28_NotAcceptedAsAnothers /\ [][C28_OwnEntryOnly]_vars

\* C28 witness: the entry of user-2 holds a token issued for user-1, and
\* refresh_token with that token was refused as revoked and left the entry
C28_Witness ==
    /\ last.op = "refresh_token"
    /\ last.token.claims.sub = "user-1"
    /\ "user-2" \in DOMAIN users_by_id
    /\ "user-2" \in DOMAIN refresh_tokens
    /\ refresh_tokens["user-2"] = last.token
    /\ Unexpired(last.token)
    /\ last.outcome = TokenRevoked

\* the handler of POST /notes ran and domain validation refused its note
RejectedByValidation ==
    /\ note_last.op = "POST /notes"
    /\ note_last.exc # "RequestValidationError"
    /\ validate_entity(note_last.note) # <<>>

\* C29: POST /notes answers a note that validate_entity refuses with 400,
\* through the route's error mapping, and stores nothing.
C29_ValidationFailureIsBadRequest ==
    RejectedByValidation
       => /\ note_last.count = HTTP_400_BAD_REQUEST
          /\ note_last.exc = "ValueError"
          /\ note_last.id \notin DOMAIN notes

====
